---- MODULE Spec2Model ----
(***************************************************************************)
(* Forecast orchestration of quartz_solar_forecast/forecast.py:            *)
(* run_forecast dispatches on the model name to predict_ocf ("gb") or      *)
(* predict_tryolabs ("xgb").                                               *)
(*                                                                         *)
(* Time.  An instant is an integer, minutes since an epoch chosen at a     *)
(* midnight.  A calendar date ("%Y-%m-%d" text) is a day number.  A text   *)
(* timestamp is a record [fmt, t]: the syntax class of the text and the    *)
(* instant it denotes ("iso" is ISO-8601, "dateutil" is a date text that   *)
(* is not ISO-8601 but that the pandas parser reads, such as               *)
(* "06/01/2024 12:00", "junk" denotes nothing).                            *)
(*                                                                         *)
(* Callers.  Each caller p runs one invocation of run_forecast at a time,  *)
(* one step per shared-state access (the clock, the collaborators, the     *)
(* model artifact).                                                        *)
(***************************************************************************)
EXTENDS Integers, Sequences, FiniteSets, TLC

VARIABLES
    now,        \* the wall clock
    ticks,      \* how often the clock has advanced
    artifact,   \* the regressor's model artifact on local disk
    lock,       \* caller that holds the artifact's initialisation guard, 0 if none
    downloads,  \* number of fetches of the artifact from remote storage
    pc,         \* pc[p]: position of caller p
    args,       \* args[p]: the arguments of p's run_forecast call
    loc,        \* loc[p]: the local variables of predict_ocf / predict_tryolabs
    calls,      \* calls[p]: the collaborator calls of the invocation, in order
    stdout,     \* stdout[p]: what the invocation printed
    out         \* out[p]: how the invocation ended

vars == <<now, ticks, artifact, lock, downloads, pc, args, loc, calls, stdout, out>>

-----------------------------------------------------------------------------
(* Bounds *)

NumCallers == 2
MaxTicks == 1
MaxRows == 3

Callers == 1..NumCallers

-----------------------------------------------------------------------------
(* Time *)

Hour == 60
Day == 24 * 60

\* pd.Timestamp.strftime("%Y-%m-%d"): the calendar date of an instant
Strftime(t) == t \div Day

\* datetime.strptime(d, "%Y-%m-%d"): midnight of a calendar date
Strptime(d) == d * Day

\* pd.Timestamp.round(freq): to the nearest multiple of freq, ties to the even one
Round(t, freq) ==
    LET q == t \div freq
        r == t % freq
    IN  IF 2 * r < freq THEN q * freq
        ELSE IF 2 * r > freq THEN (q + 1) * freq
        ELSE IF q % 2 = 0 THEN q * freq
        ELSE (q + 1) * freq

\* the frequency "15min" of predict_ocf
QuarterHour == 15

\* pd.Timedelta(hours=48)
HorizonHours == 48

\* timedelta(days=3 * 30)
RetentionDays == 3 * 30

-----------------------------------------------------------------------------
(* Values *)

None == "None"

Unset == [tag |-> "unset", fmt |-> "", t |-> 0]
Instant(t) == [tag |-> "instant", fmt |-> "", t |-> t]
Text(fmt, t) == [tag |-> "text", fmt |-> fmt, t |-> t]

\* datetime.fromisoformat: reads ISO-8601 text only
FromIsoFormat(ts) ==
    IF ts.fmt = "iso" THEN [ok |-> TRUE, t |-> ts.t] ELSE [ok |-> FALSE, t |-> 0]

\* pd.Timestamp(ts): an instant as it is; text through the pandas parser, which
\* reads ISO-8601 and falls back to dateutil for other date texts
PdTimestamp(ts) ==
    IF ts.tag = "instant" THEN [ok |-> TRUE, t |-> ts.t]
    ELSE IF ts.fmt \in {"iso", "dateutil"} THEN [ok |-> TRUE, t |-> ts.t]
    ELSE [ok |-> FALSE, t |-> 0]

NoFrame == [index |-> "none", rows |-> <<>>]
NoData == [kind |-> "none"]

NoLocals ==
    [params |-> [site |-> None], ts |-> -1, resolved_at |-> -1,
     nwp_xr |-> NoData, pv_xr |-> NoData,
     start_date |-> -1, start_time |-> -1, end_time |-> -1,
     start_date_datetime |-> -1, three_months_ago |-> -1,
     predictions |-> NoFrame]

NoArgs ==
    [site |-> [latitude |-> 0, longitude |-> 0, capacity_kwp |-> 0,
               tilt |-> 0, orientation |-> 0],
     model |-> "", ts |-> Unset, nwp_source |-> "",
     access_token |-> None, enphase_system_id |-> None,
     solis_data |-> None, givenergy_data |-> None]

Pending == [kind |-> "pending"]
Returned(v) == [kind |-> "return", value |-> v]
Raised(e, m) == [kind |-> "raise", error |-> e, message |-> m]

NoneValue == [type |-> "None"]
FrameValue(df) == [type |-> "DataFrame", df |-> df]

\* a collaborator call: the function, its arguments and what it returned
Invoke(fn, a, r) == [fn |-> fn, args |-> a, ret |-> r]

-----------------------------------------------------------------------------
(* Data frames: index |-> what the row labels are, rows |-> the rows in order. *)
(* A row of the regressor's output is [label, date, power_kw].                 *)

\* a mutant of Mask: the window closed at its end
MaskClosed(rows, lo, hi) ==
    SelectSeq(rows, LAMBDA r : r.date >= lo /\ r.date <= hi)

\* predictions[(predictions["date"] >= lo) & (predictions["date"] < hi)]
RECURSIVE Mask(_, _, _)
Mask(rows, lo, hi) ==
    IF rows = <<>> THEN <<>>
    ELSE LET rest == Mask(Tail(rows), lo, hi)
         IN  IF Head(rows).date >= lo /\ Head(rows).date < hi
             THEN <<Head(rows)>> \o rest
             ELSE rest

\* DataFrame.reset_index(drop=True): the labels become 0, 1, 2, ...
ResetIndex(df) ==
    [index |-> "range",
     rows |-> [i \in 1..Len(df.rows) |-> [df.rows[i] EXCEPT !.label = i - 1]]]

\* DataFrame.set_index("date"): the date column becomes the label and leaves
\* the columns
SetIndexDate(df) ==
    [index |-> "date",
     rows |-> [i \in 1..Len(df.rows) |->
                 [label |-> df.rows[i].date, power_kw |-> df.rows[i].power_kw]]]

-----------------------------------------------------------------------------
(* Collaborators: quartz_solar_forecast.data and quartz_solar_forecast.forecasts *)

\* get_nwp(site, ts, nwp_source) -> NwpDataset
GetNwp(site, ts, nwp_source) ==
    [kind |-> "nwp", site |-> site, ts |-> ts, nwp_source |-> nwp_source]

\* make_pv_data(site, ts, access_token, enphase_system_id, solis_data,
\* givenergy_data) -> PvDataset
MakePvData(site, ts, access_token, enphase_system_id, solis_data, givenergy_data) ==
    [kind |-> "pv", site |-> site, ts |-> ts, access_token |-> access_token,
     enphase_system_id |-> enphase_system_id, solis_data |-> solis_data,
     givenergy_data |-> givenergy_data]

\* forecast_v1_tilt_orientation(nwp_source, nwp_xr, pv_xr, ts, model): a table
\* indexed by timestamp, from ts on in 15-minute steps
ForecastV1TiltOrientation(nwp_source, nwp_xr, pv_xr, ts, model) ==
    [index |-> "date",
     rows |-> [i \in 1..MaxRows |->
                 [label |-> ts + (i - 1) * 15,
                  power_kw |-> nwp_xr.site.capacity_kwp * i]]]

\* A table TryolabsSolarPowerPredictor.predict_power_output may return for
\* start_date: plan.n rows from midnight of start_date + plan.off on, plan.step
\* apart, ascending or (plan.rev) descending.
RegressorTable(kwp, start_date, plan) ==
    [index |-> "range",
     rows |-> [i \in 1..plan.n |->
                 LET k == IF plan.rev THEN plan.n - i ELSE i - 1
                 IN  [label |-> i - 1,
                      date |-> start_date * Day + plan.off + k * plan.step,
                      power_kw |-> kwp * (k + 1)]]]

-----------------------------------------------------------------------------
(* run_forecast *)

\* a mutant of Route: anything but "xgb" takes the default path
RouteDefaultGb(model) ==
    IF model = "xgb" THEN "predict_tryolabs" ELSE "predict_ocf"

\* a mutant of Route: both models take the predict_ocf path
RouteAllOcf(model) ==
    IF model \in {"gb", "xgb"} THEN "predict_ocf" ELSE "raise"

\* the if / elif / else of run_forecast
Route(model) ==
    IF model = "gb" THEN "predict_ocf"
    ELSE IF model = "xgb" THEN "predict_tryolabs"
    ELSE "raise"

\* the arguments of the call of predict_ocf
OcfParams(a) ==
    [site |-> a.site, model |-> None, ts |-> a.ts, nwp_source |-> a.nwp_source,
     access_token |-> a.access_token, enphase_system_id |-> a.enphase_system_id,
     solis_data |-> a.solis_data, givenergy_data |-> a.givenergy_data]

\* the arguments of the call of predict_tryolabs
TryolabsParams(a) == [site |-> a.site, ts |-> a.ts]

\* f"Unsupported model: {model}. Choose between 'xgb' and 'gb'"
UnsupportedModel(model) ==
    Raised("ValueError",
           <<"Unsupported model: ", model, ". Choose between '", "xgb", "' and '",
             "gb", "'">>)

\* a caller invokes run_forecast with arguments out of Requests
Enter(p, Requests) ==
    /\ pc[p] = "idle"
    /\ \E a \in Requests : args' = [args EXCEPT ![p] = a]
    /\ pc' = [pc EXCEPT ![p] = "run_forecast"]
    /\ UNCHANGED <<now, ticks, artifact, lock, downloads, loc, calls, stdout, out>>

\* the caller has its outcome and forgets the invocation
Leave(p) ==
    /\ pc[p] = "done"
    /\ pc' = [pc EXCEPT ![p] = "idle"]
    /\ args' = [args EXCEPT ![p] = NoArgs]
    /\ loc' = [loc EXCEPT ![p] = NoLocals]
    /\ calls' = [calls EXCEPT ![p] = <<>>]
    /\ stdout' = [stdout EXCEPT ![p] = <<>>]
    /\ out' = [out EXCEPT ![p] = Pending]
    /\ UNCHANGED <<now, ticks, artifact, lock, downloads>>

RunForecast(p) ==
    /\ pc[p] = "run_forecast"
    /\ LET a == args[p]
           to == Route(a.model)
       IN  /\ pc' = [pc EXCEPT ![p] = IF to = "raise" THEN "done" ELSE to]
           /\ loc' = [loc EXCEPT ![p].params =
                        IF to = "predict_ocf" THEN OcfParams(a)
                        ELSE IF to = "predict_tryolabs" THEN TryolabsParams(a)
                        ELSE @]
           /\ out' = [out EXCEPT ![p] =
                        IF to = "raise" THEN UnsupportedModel(a.model) ELSE @]
    /\ UNCHANGED <<now, ticks, artifact, lock, downloads, args, calls, stdout>>

-----------------------------------------------------------------------------
(* predict_ocf *)

\* a mutant of OcfTimestamp: the given timestamp is rounded as well
OcfTimestampRounded(ts, clock) ==
    IF ts.tag = "unset" THEN [ok |-> TRUE, t |-> Round(clock, QuarterHour)]
    ELSE IF ts.tag = "text"
         THEN [ok |-> FromIsoFormat(ts).ok, t |-> Round(FromIsoFormat(ts).t, QuarterHour)]
         ELSE [ok |-> TRUE, t |-> Round(ts.t, QuarterHour)]

\* the two ifs on ts
OcfTimestamp(ts, clock) ==
    IF ts.tag = "unset" THEN [ok |-> TRUE, t |-> Round(clock, QuarterHour)]
    ELSE IF ts.tag = "text" THEN FromIsoFormat(ts)
    ELSE [ok |-> TRUE, t |-> ts.t]

OcfResolve(p) ==
    /\ pc[p] = "predict_ocf"
    /\ LET r == OcfTimestamp(loc[p].params.ts, now)
       IN  IF r.ok
           THEN /\ loc' = [loc EXCEPT ![p].ts = r.t, ![p].resolved_at = now]
                /\ pc' = [pc EXCEPT ![p] = "get_nwp"]
                /\ out' = out
           ELSE /\ out' = [out EXCEPT ![p] =
                             Raised("ValueError", <<"Invalid isoformat string">>)]
                /\ pc' = [pc EXCEPT ![p] = "done"]
                /\ loc' = loc
    /\ UNCHANGED <<now, ticks, artifact, lock, downloads, args, calls, stdout>>

\* the call of a collaborator that fails: the error propagates
Fails(p, fn, a, error) ==
    /\ calls' = [calls EXCEPT ![p] = Append(@, Invoke(fn, a, [raised |-> error]))]
    /\ out' = [out EXCEPT ![p] = Raised(error, <<fn>>)]
    /\ pc' = [pc EXCEPT ![p] = "done"]
    /\ loc' = loc

OcfGetNwp(p) ==
    /\ pc[p] = "get_nwp"
    /\ LET l == loc[p]
           a == [site |-> l.params.site, ts |-> l.ts, nwp_source |-> l.params.nwp_source]
           r == GetNwp(a.site, a.ts, a.nwp_source)
       IN  \/ /\ calls' = [calls EXCEPT ![p] = Append(@, Invoke("get_nwp", a, r))]
              /\ loc' = [loc EXCEPT ![p].nwp_xr = r]
              /\ pc' = [pc EXCEPT ![p] = "make_pv_data"]
              /\ out' = out
           \/ Fails(p, "get_nwp", a, "DataUnavailable")
    /\ UNCHANGED <<now, ticks, artifact, lock, downloads, args, stdout>>

OcfMakePvData(p) ==
    /\ pc[p] = "make_pv_data"
    /\ LET l == loc[p]
           a == [site |-> l.params.site, ts |-> l.ts,
                 access_token |-> l.params.access_token,
                 enphase_system_id |-> l.params.enphase_system_id,
                 solis_data |-> l.params.solis_data,
                 givenergy_data |-> l.params.givenergy_data]
           r == MakePvData(a.site, a.ts, a.access_token, a.enphase_system_id,
                           a.solis_data, a.givenergy_data)
       IN  \/ /\ calls' = [calls EXCEPT ![p] = Append(@, Invoke("make_pv_data", a, r))]
              /\ loc' = [loc EXCEPT ![p].pv_xr = r]
              /\ pc' = [pc EXCEPT ![p] = "forecast"]
              /\ out' = out
           \/ \E e \in {"DataUnavailable", "AuthenticationError"} :
                  Fails(p, "make_pv_data", a, e)
    /\ UNCHANGED <<now, ticks, artifact, lock, downloads, args, stdout>>

OcfForecast(p) ==
    /\ pc[p] = "forecast"
    /\ LET l == loc[p]
           a == [nwp_source |-> l.params.nwp_source, nwp_xr |-> l.nwp_xr,
                 pv_xr |-> l.pv_xr, ts |-> l.ts, model |-> l.params.model]
           pred_df == ForecastV1TiltOrientation(a.nwp_source, a.nwp_xr, a.pv_xr,
                                                a.ts, a.model)
       IN  /\ calls' = [calls EXCEPT ![p] =
                          Append(@, Invoke("forecast_v1_tilt_orientation", a, pred_df))]
           /\ out' = [out EXCEPT ![p] = Returned(FrameValue(pred_df))]
           /\ pc' = [pc EXCEPT ![p] = "done"]
    /\ UNCHANGED <<now, ticks, artifact, lock, downloads, args, loc, stdout>>

-----------------------------------------------------------------------------
(* predict_tryolabs *)

\* a mutant of TryolabsNext: load_model and what follows are not under the else
TryolabsNextUnguarded(at, stale) ==
    IF at = "predict_tryolabs" THEN "start_time"
    ELSE IF at = "start_time" THEN "gate"
    ELSE IF at = "gate" THEN "load_model"
    ELSE IF at = "load_model" THEN "predict"
    ELSE IF at = "predict" THEN "window"
    ELSE "done"

\* a mutant of TryolabsNext: the call of load_model is missing
TryolabsNextNoLoad(at, stale) ==
    IF at = "predict_tryolabs" THEN "start_time"
    ELSE IF at = "start_time" THEN "gate"
    ELSE IF at = "gate" THEN (IF stale THEN "done" ELSE "predict")
    ELSE IF at = "load_model" THEN "predict"
    ELSE IF at = "predict" THEN "window"
    ELSE "done"

\* the order of the statements of predict_tryolabs: where control goes from `at`
TryolabsNext(at, stale) ==
    IF at = "predict_tryolabs" THEN "start_time"
    ELSE IF at = "start_time" THEN "gate"
    ELSE IF at = "gate" THEN (IF stale THEN "done" ELSE "load_model")
    ELSE IF at = "load_model" THEN "predict"
    ELSE IF at = "predict" THEN "window"
    ELSE "done"

\* a mutant of IsStale: the comparison the other way round
IsStaleReversed(start_date_datetime, three_months_ago) ==
    start_date_datetime > three_months_ago

\* start_date_datetime < three_months_ago
IsStale(start_date_datetime, three_months_ago) ==
    start_date_datetime < three_months_ago

\* f"Start date ({start_date}) is more than 3 months ago, no", "forecast data available."
StaleNotice(start_date) ==
    <<"Start date (", start_date, ") is more than 3 months ago, no",
      "forecast data available.">>

\* the predictor is made; start_date is the calendar date of the clock or of ts
TryolabsStartDate(p) ==
    /\ pc[p] = "predict_tryolabs"
    /\ calls' = [calls EXCEPT ![p] =
                   Append(@, Invoke("TryolabsSolarPowerPredictor", <<>>, "predictor"))]
    /\ LET ts == loc[p].params.ts
           r == IF ts.tag = "unset" THEN [ok |-> TRUE, t |-> now] ELSE PdTimestamp(ts)
       IN  IF r.ok
           THEN /\ loc' = [loc EXCEPT ![p].start_date = Strftime(r.t)]
                /\ pc' = [pc EXCEPT ![p] = TryolabsNext("predict_tryolabs", FALSE)]
                /\ out' = out
           ELSE /\ out' = [out EXCEPT ![p] =
                             Raised("ValueError", <<"could not convert string to Timestamp">>)]
                /\ pc' = [pc EXCEPT ![p] = "done"]
                /\ loc' = loc
    /\ UNCHANGED <<now, ticks, artifact, lock, downloads, args, stdout>>

\* start_time is the clock or ts rounded to the hour; end_time; start_date_datetime
TryolabsStartTime(p) ==
    /\ pc[p] = "start_time"
    /\ LET ts == loc[p].params.ts
           t == IF ts.tag = "unset" THEN now ELSE PdTimestamp(ts).t
           start_time == Round(t, Hour)
       IN  loc' = [loc EXCEPT ![p].start_time = start_time,
                              ![p].end_time = start_time + HorizonHours * Hour,
                              ![p].start_date_datetime = Strptime(loc[p].start_date),
                              ![p].ts = t,
                              ![p].resolved_at = now]
    /\ pc' = [pc EXCEPT ![p] = TryolabsNext("start_time", FALSE)]
    /\ UNCHANGED <<now, ticks, artifact, lock, downloads, args, calls, stdout, out>>

\* the staleness check: the notice and the end of the function, or on to load_model
TryolabsGate(p) ==
    /\ pc[p] = "gate"
    /\ LET three_months_ago == now - RetentionDays * Day
           stale == IsStale(loc[p].start_date_datetime, three_months_ago)
           to == TryolabsNext("gate", stale)
       IN  /\ loc' = [loc EXCEPT ![p].three_months_ago = three_months_ago]
           /\ stdout' = [stdout EXCEPT ![p] =
                           IF stale THEN Append(@, StaleNotice(loc[p].start_date)) ELSE @]
           /\ pc' = [pc EXCEPT ![p] = to]
           /\ out' = [out EXCEPT ![p] = IF to = "done" THEN Returned(NoneValue) ELSE @]
    /\ UNCHANGED <<now, ticks, artifact, lock, downloads, args, calls>>

\* the guard of the artifact's initialisation
MayEnterLoad(holder) == holder = 0

\* load_model, first half: under the guard, the artifact is looked for and, when
\* it is not there, fetched
LoadModel(p) ==
    /\ pc[p] = "load_model"
    /\ MayEnterLoad(lock)
    /\ calls' = [calls EXCEPT ![p] = Append(@, Invoke("load_model", <<>>, None))]
    /\ IF artifact = "ready"
       THEN /\ pc' = [pc EXCEPT ![p] = TryolabsNext("load_model", FALSE)]
            /\ UNCHANGED <<artifact, lock, downloads>>
       ELSE /\ artifact' = "compressed"
            /\ lock' = p
            /\ downloads' = downloads + 1
            /\ pc' = [pc EXCEPT ![p] = "decompress"]
    /\ UNCHANGED <<now, ticks, args, loc, stdout, out>>

\* load_model, second half: the fetched artifact is decompressed, the guard released
Decompress(p) ==
    /\ pc[p] = "decompress"
    /\ artifact' = "ready"
    /\ lock' = IF lock = p THEN 0 ELSE lock
    /\ pc' = [pc EXCEPT ![p] = TryolabsNext("load_model", FALSE)]
    /\ UNCHANGED <<now, ticks, downloads, args, loc, calls, stdout, out>>

\* predict_power_output returns one of the tables of Plans for the start date
TryolabsPredict(p, Plans) ==
    /\ pc[p] = "predict"
    /\ LET site == loc[p].params.site
           a == [latitude |-> site.latitude, longitude |-> site.longitude,
                 start_date |-> loc[p].start_date, kwp |-> site.capacity_kwp,
                 orientation |-> site.orientation, tilt |-> site.tilt]
       IN  \E plan \in Plans :
              LET predictions == RegressorTable(a.kwp, a.start_date, plan)
              IN  /\ calls' = [calls EXCEPT ![p] =
                                 Append(@, Invoke("predict_power_output", a, predictions))]
                  /\ loc' = [loc EXCEPT ![p].predictions = predictions]
    /\ pc' = [pc EXCEPT ![p] = TryolabsNext("predict", FALSE)]
    /\ UNCHANGED <<now, ticks, artifact, lock, downloads, args, stdout, out>>

\* the postprocessing of the table, and the return
TryolabsWindow(p) ==
    /\ pc[p] = "window"
    /\ LET l == loc[p]
           masked == [index |-> "range",
                      rows |-> Mask(l.predictions.rows, l.start_time, l.end_time)]
           predictions == SetIndexDate(ResetIndex(masked))
       IN  /\ loc' = [loc EXCEPT ![p].predictions = predictions]
           /\ out' = [out EXCEPT ![p] = Returned(FrameValue(predictions))]
    /\ stdout' = [stdout EXCEPT ![p] = Append(@, <<"Predictions finished.">>)]
    /\ pc' = [pc EXCEPT ![p] = TryolabsNext("window", FALSE)]
    /\ UNCHANGED <<now, ticks, artifact, lock, downloads, args, calls>>

-----------------------------------------------------------------------------
(* The clock *)

TickSteps == {7, Hour}

Tick ==
    /\ ticks < MaxTicks
    /\ \E d \in TickSteps : now' = now + d
    /\ ticks' = ticks + 1
    /\ UNCHANGED <<artifact, lock, downloads, pc, args, loc, calls, stdout, out>>

-----------------------------------------------------------------------------
(* Inputs *)

Sites ==
    {[latitude |-> 51, longitude |-> 0, capacity_kwp |-> 4, tilt |-> 30,
      orientation |-> 180],
     [latitude |-> 40, longitude |-> 3, capacity_kwp |-> 1, tilt |-> 35,
      orientation |-> 90]}

ModelNames == {"gb", "xgb", "lgbm", "XGB"}

DataSources ==
    {[nwp_source |-> "icon", access_token |-> None, enphase_system_id |-> None,
      solis_data |-> None, givenergy_data |-> None],
     [nwp_source |-> "gfs", access_token |-> "token", enphase_system_id |-> "enphase-1",
      solis_data |-> None, givenergy_data |-> None],
     [nwp_source |-> "icon", access_token |-> None, enphase_system_id |-> None,
      solis_data |-> "solis_df", givenergy_data |-> "givenergy_df"]}

\* the clock starts on day 100: 00:00, 00:08, 12:30, 13:30, 23:52
ClockStarts == {Strptime(100) + m : m \in {0, 8, 12 * Hour + 30, 13 * Hour + 30, 23 * Hour + 52}}

\* given instants: the days around the clock's day less 90, and the clock's day
TsInstants ==
    {Strptime(d) + m : d \in {9, 10, 11, 100},
                       m \in {0, 12 * Hour + 30, 13 * Hour + 30, 23 * Hour + 52}}

TsTexts ==
    {Text(f, Strptime(d) + 12 * Hour + 30) : f \in {"iso", "dateutil"}, d \in {9, 11}}
        \cup {Text("junk", 0)}

Timestamps == {Unset} \cup {Instant(t) : t \in TsInstants} \cup TsTexts

Request(site, model, ts, src) ==
    [site |-> site, model |-> model, ts |-> ts, nwp_source |-> src.nwp_source,
     access_token |-> src.access_token, enphase_system_id |-> src.enphase_system_id,
     solis_data |-> src.solis_data, givenergy_data |-> src.givenergy_data]

Requests ==
    {Request(site, model, ts, src) :
        site \in Sites, model \in ModelNames, ts \in Timestamps, src \in DataSources}

\* the regressor's tables: from midnight in days, from noon in days, from
\* 11:45 in quarters of an hour; up to MaxRows rows; ascending or descending
Plans ==
    {[off |-> s[1], step |-> s[2], n |-> n, rev |-> rev] :
        s \in {<<0, Day>>, <<12 * Hour, Day>>, <<11 * Hour + 45, 15>>},
        n \in 0..MaxRows, rev \in BOOLEAN}

-----------------------------------------------------------------------------
(* One caller, every request *)

Init ==
    /\ now \in ClockStarts
    /\ ticks = 0
    /\ artifact = "absent"
    /\ lock = 0
    /\ downloads = 0
    /\ pc = [p \in Callers |-> "idle"]
    /\ args = [p \in Callers |-> NoArgs]
    /\ loc = [p \in Callers |-> NoLocals]
    /\ calls = [p \in Callers |-> <<>>]
    /\ stdout = [p \in Callers |-> <<>>]
    /\ out = [p \in Callers |-> Pending]

Next ==
    \/ Tick
    \/ Enter(1, Requests)
    \/ RunForecast(1)
    \/ OcfResolve(1)
    \/ OcfGetNwp(1)
    \/ OcfMakePvData(1)
    \/ OcfForecast(1)
    \/ TryolabsStartDate(1)
    \/ TryolabsStartTime(1)
    \/ TryolabsGate(1)
    \/ LoadModel(1)
    \/ Decompress(1)
    \/ TryolabsPredict(1, Plans)
    \/ TryolabsWindow(1)
    \/ Leave(1)

Spec == Init /\ [][Next]_vars

-----------------------------------------------------------------------------
(* Several callers at once, a few requests, the clock standing still *)

ConcSite == CHOOSE site \in Sites : site.capacity_kwp = 4

ConcRequests ==
    {Request(ConcSite, model, Instant(Strptime(d) + 13 * Hour + 30), src) :
        model \in {"gb", "xgb"}, d \in {9, 11},
        src \in {s \in DataSources : s.solis_data = None}}

ConcPlans == {[off |-> 12 * Hour, step |-> Day, n |-> MaxRows, rev |-> FALSE]}

InitConc ==
    /\ Init
    /\ now = Strptime(100) + 12 * Hour + 30

NextConc ==
    \E p \in Callers :
        \/ Enter(p, ConcRequests)
        \/ RunForecast(p)
        \/ OcfResolve(p)
        \/ OcfGetNwp(p)
        \/ OcfMakePvData(p)
        \/ OcfForecast(p)
        \/ TryolabsStartDate(p)
        \/ TryolabsStartTime(p)
        \/ TryolabsGate(p)
        \/ LoadModel(p)
        \/ Decompress(p)
        \/ TryolabsPredict(p, ConcPlans)
        \/ TryolabsWindow(p)
        \/ Leave(p)

SpecConc == InitConc /\ [][NextConc]_vars

-----------------------------------------------------------------------------
(* Properties *)

Abs(x) == IF x < 0 THEN -x ELSE x

Functions(p) == {calls[p][i].fn : i \in DOMAIN calls[p]}

\* ts says a calendar date: an instant, or text the path's parser reads
Dated(ts) == ts.tag = "instant" \/ (ts.tag = "text" /\ ts.fmt \in {"iso", "dateutil"})

\* h is t rounded to the hour: the nearest full hour, the even one of two
HourRounded(h, t) ==
    /\ h % 60 = 0
    /\ 2 * Abs(t - h) <= 60
    /\ 2 * Abs(t - h) = 60 => (h \div 60) % 2 = 0

\* the clock when the staleness check of caller p read it
GateClock(p) == loc[p].three_months_ago + 90 * 24 * 60

Notice(p) ==
    \E i \in DOMAIN stdout[p] : stdout[p][i][1] = "Start date ("

\* C1: a model name other than "gb" and "xgb" ends run_forecast with the
\* unsupported-model error, whose message names the given value and lists "gb"
\* and "xgb", and no collaborator has been called.
C1_UnsupportedModel ==
    \A p \in Callers :
        (pc[p] \notin {"idle", "run_forecast"} /\ args[p].model \notin {"gb", "xgb"}) =>
            /\ pc[p] = "done"
            /\ out[p].kind = "raise"
            /\ out[p].error = "ValueError"
            /\ out[p].message[1] = "Unsupported model: "
            /\ out[p].message[2] = args[p].model
            /\ {"gb", "xgb"} \subseteq {out[p].message[i] : i \in 3..Len(out[p].message)}
            /\ calls[p] = <<>>
            /\ loc[p] = NoLocals

C1_Witness ==
    \E p \in Callers :
        /\ pc[p] = "done"
        /\ args[p].model = "lgbm"
        /\ out[p].kind = "raise"

\* C2: the table predict_tryolabs returns holds exactly the rows of the
\* regressor's table whose date t has start <= t < start + 48h, in their order,
\* labelled by that date, where start is the reference instant rounded to the hour.
C2_XgbWindow ==
    \A p \in Callers :
        (/\ pc[p] = "done"
         /\ args[p].model = "xgb"
         /\ out[p].kind = "return"
         /\ out[p].value.type = "DataFrame") =>
            LET start == loc[p].start_time
                raw == calls[p][Len(calls[p])].ret.rows
                res == out[p].value.df.rows
                inside == SelectSeq(raw, LAMBDA r :
                              start <= r.date /\ r.date < start + 48 * 60)
            IN  /\ HourRounded(start, loc[p].ts)
                /\ args[p].ts.tag # "unset" => loc[p].ts = args[p].ts.t
                /\ args[p].ts.tag = "unset" => loc[p].ts = loc[p].resolved_at
                /\ out[p].value.df.index = "date"
                /\ \A i \in DOMAIN res :
                       start <= res[i].label /\ res[i].label < start + 48 * 60
                /\ Len(res) = Len(inside)
                /\ \A i \in DOMAIN res :
                       /\ res[i].label = inside[i].date
                       /\ res[i].power_kw = inside[i].power_kw

C2_Witness ==
    \E p \in Callers :
        /\ pc[p] = "done"
        /\ args[p].model = "xgb"
        /\ out[p].kind = "return"
        /\ out[p].value.type = "DataFrame"
        /\ LET start == loc[p].start_time
               raw == calls[p][Len(calls[p])].ret.rows
               res == out[p].value.df.rows
           IN  /\ Len(res) = 2
               /\ res[1].label > res[2].label
               /\ \E i \in DOMAIN raw : raw[i].date = start + 48 * 60
               /\ start # loc[p].ts

\* C3: an xgb invocation with a given ts whose calendar date is before the date
\* of the clock less 90 days ends normally: it returns nothing, it has printed
\* the notice, and it has neither raised nor made a table.
C3_StaleReturnsNone ==
    \A p \in Callers :
        (args[p].model = "xgb" /\ Dated(args[p].ts)) =>
            /\ out[p].kind # "raise"
            /\ (/\ loc[p].three_months_ago # -1
                /\ args[p].ts.t \div (24 * 60) < GateClock(p) \div (24 * 60) - 90) =>
                    /\ pc[p] = "done"
                    /\ out[p] = Returned(NoneValue)
                    /\ Notice(p)
                    /\ loc[p].predictions = NoFrame

C3_Witness ==
    \E p \in Callers :
        /\ pc[p] = "done"
        /\ args[p].model = "xgb"
        /\ args[p].ts.tag = "text"
        /\ args[p].ts.t \div (24 * 60) < GateClock(p) \div (24 * 60) - 90
        /\ out[p] = Returned(NoneValue)

\* C8: on the gb path a given ts is taken as it is and the instant is resolved
\* once: get_nwp, make_pv_data and the model get the same instant, which is the
\* caller's ts when one was given, and the model's table is returned as it is.
C8_OcfInstant ==
    \A p \in Callers :
        (args[p].model = "gb" /\ loc[p].resolved_at # -1) =>
            /\ args[p].ts.tag # "unset" => loc[p].ts = args[p].ts.t
            /\ \A i \in DOMAIN calls[p] : calls[p][i].args.ts = loc[p].ts
            /\ out[p].kind = "return" =>
                   /\ Len(calls[p]) = 3
                   /\ calls[p][1].fn = "get_nwp"
                   /\ calls[p][2].fn = "make_pv_data"
                   /\ calls[p][3].fn = "forecast_v1_tilt_orientation"
                   /\ calls[p][3].args.nwp_xr = calls[p][1].ret
                   /\ calls[p][3].args.pv_xr = calls[p][2].ret
                   /\ out[p].value = FrameValue(calls[p][3].ret)

C8_Witness ==
    \E p \in Callers :
        /\ pc[p] = "done"
        /\ args[p].model = "gb"
        /\ args[p].ts.tag = "instant"
        /\ args[p].ts.t % 15 # 0
        /\ out[p].kind = "return"
        /\ out[p].value.df.rows[1].label = args[p].ts.t

\* C10: an xgb invocation goes Resolve, Staleness gate, Load, Predict, Window:
\* load_model is called only after the gate has passed, predict_power_output
\* only after load_model has returned, the table is made only after the
\* prediction, and an invocation the gate ends calls neither.
C10_XgbOrder ==
    \A p \in Callers :
        args[p].model = "xgb" =>
            LET passed == /\ loc[p].start_time # -1
                          /\ loc[p].three_months_ago # -1
                          /\ ~Notice(p)
            IN  /\ \A i \in DOMAIN calls[p] :
                       calls[p][i].fn =
                           <<"TryolabsSolarPowerPredictor", "load_model",
                             "predict_power_output">>[i]
                /\ loc[p].three_months_ago # -1 => loc[p].start_time # -1
                /\ (pc[p] \in {"load_model", "decompress"} \/ Len(calls[p]) >= 2) => passed
                /\ pc[p] = "predict" => Len(calls[p]) = 2
                /\ Len(calls[p]) >= 3 => pc[p] \in {"window", "done"}
                /\ loc[p].predictions # NoFrame => Len(calls[p]) = 3
                /\ (out[p].kind = "return" /\ out[p].value.type = "DataFrame") =>
                       loc[p].predictions.index = "date"
                /\ Notice(p) => (pc[p] = "done" /\ Len(calls[p]) = 1)

C10_Witness ==
    \E p \in Callers :
        /\ pc[p] = "done"
        /\ args[p].model = "xgb"
        /\ Len(calls[p]) = 3
        /\ out[p].kind = "return"
        /\ downloads = 1

\* C5: with ts unset the reference instant is the clock rounded down to the
\* path's grid (15 minutes on gb, the hour on xgb): on the grid and not later
\* than the clock was when it was read.
C5_UnsetRoundsDown ==
    \A p \in Callers :
        (args[p].model \in {"gb", "xgb"} /\ args[p].ts.tag = "unset"
            /\ loc[p].resolved_at # -1) =>
            LET grid == IF args[p].model = "gb" THEN 15 ELSE 60
                ref == IF args[p].model = "gb" THEN loc[p].ts ELSE loc[p].start_time
            IN  /\ ref % grid = 0
                /\ ref <= loc[p].resolved_at

\* C7: every text ts that is not ISO-8601 ends run_forecast with the
\* invalid-timestamp error on the gb and on the xgb path, before any data is
\* fetched, the model is loaded or a prediction is made.
C7_NonIsoTextRaises ==
    \A p \in Callers :
        (/\ args[p].model \in {"gb", "xgb"}
         /\ args[p].ts.tag = "text"
         /\ args[p].ts.fmt # "iso") =>
            /\ pc[p] \in {"idle", "run_forecast", "predict_ocf", "predict_tryolabs", "done"}
            /\ pc[p] = "done" => (out[p].kind = "raise" /\ out[p].error = "ValueError")
            /\ Functions(p) \subseteq {"TryolabsSolarPowerPredictor"}

\* C9: the staleness gate of the xgb path ends the invocation exactly when the
\* calendar date of the start is before the date of the clock less 90 days.
C9_GateByDate ==
    \A p \in Callers :
        (args[p].model = "xgb" /\ loc[p].three_months_ago # -1) =>
            (Notice(p) <=>
                loc[p].start_date < GateClock(p) \div (24 * 60) - 90)

C6_XgbIgnoresDataSources ==
    /\ \A p \in Callers :
           args[p].model = "xgb" =>
               /\ Functions(p) \cap {"get_nwp", "make_pv_data",
                                       "forecast_v1_tilt_orientation"} = {}
               /\ pc[p] \notin {"predict_ocf", "get_nwp", "make_pv_data", "forecast"}
    /\ \A p, q \in Callers :
           (/\ pc[p] = "done" /\ pc[q] = "done"
            /\ args[p].model = "xgb" /\ args[q].model = "xgb"
            /\ args[p].site = args[q].site
            /\ args[p].ts = args[q].ts
            /\ loc[p].resolved_at = loc[q].resolved_at
            /\ loc[p].three_months_ago = loc[q].three_months_ago
            /\ Len(calls[p]) = 3 /\ Len(calls[q]) = 3 => calls[p][3].ret = calls[q][3].ret) =>
               /\ out[p] = out[q]
               /\ stdout[p] = stdout[q]
               /\ calls[p] = calls[q]

C6_Witness ==
    \E p, q \in Callers :
        /\ pc[p] = "done" /\ pc[q] = "done"
        /\ args[p].model = "xgb" /\ args[q].model = "xgb"
        /\ args[p].ts = args[q].ts
        /\ args[p].nwp_source # args[q].nwp_source
        /\ args[p].access_token # args[q].access_token
        /\ out[p].kind = "return"
        /\ out[p].value.type = "DataFrame"
        /\ out[p] = out[q]

====
